---------------------------- MODULE Spec2Model ----------------------------
(***************************************************************************)
(* PhishGuard / Advirs background service worker (src/background.js).      *)
(*                                                                         *)
(* JavaScript strings are TLA+ strings; a character is a string of length  *)
(* one (SubSeq(s, i, i)).  A score is kept exactly, as an integer number   *)
(* of 1/(100 * L) units where L = max(1, number of links supplied): every   *)
(* weight of the code is a multiple of 0.01 and the only division is the   *)
(* link mean, by links.length.  The IEEE-754 rounding of the additions is  *)
(* not part of that score; the links block, where the rounding of the mean *)
(* shows, is also modelled in double precision on its own (SpecLinks).     *)
(***************************************************************************)
EXTENDS Integers, Sequences, FiniteSets, TLC

\* ------------------------------------------------------------------------
\* String primitives of the JavaScript runtime
\* ------------------------------------------------------------------------
UPPER == "ABCDEFGHIJKLMNOPQRSTUVWXYZ"
LOWER == "abcdefghijklmnopqrstuvwxyz"
DIGITS == "0123456789"

Ch(s, i) == SubSeq(s, i, i)

Max2(a, b) == IF a >= b THEN a ELSE b
Min2(a, b) == IF a <= b THEN a ELSE b

IsDigit(c) == \E i \in 1..10 : Ch(DIGITS, i) = c
IsLetter(c) == \E i \in 1..26 : Ch(UPPER, i) = c \/ Ch(LOWER, i) = c

LowerChar(c) ==
    IF \E i \in 1..26 : Ch(UPPER, i) = c
    THEN Ch(LOWER, CHOOSE i \in 1..26 : Ch(UPPER, i) = c)
    ELSE c

\* String.prototype.toLowerCase, character by character (the string is
\* halved so that the evaluation stays shallow).
RECURSIVE ToLowerCase(_)
ToLowerCase(s) ==
    IF Len(s) = 0 THEN ""
    ELSE IF Len(s) = 1 THEN LowerChar(s)
    ELSE ToLowerCase(SubSeq(s, 1, Len(s) \div 2)) \o ToLowerCase(SubSeq(s, (Len(s) \div 2) + 1, Len(s)))

\* The least element of a set of numbers, 0 for the empty set.
MinOrZero(S) == IF S = {} THEN 0 ELSE CHOOSE x \in S : \A y \in S : x <= y
MaxOrZero(S) == IF S = {} THEN 0 ELSE CHOOSE x \in S : \A y \in S : x >= y

\* String.prototype.indexOf(sub): 1-based here, 0 when absent.
IndexOf(s, sub) ==
    MinOrZero({i \in 1..(Len(s) - Len(sub) + 1) : SubSeq(s, i, i + Len(sub) - 1) = sub})

\* String.prototype.includes
Includes(s, sub) == sub = "" \/ IndexOf(s, sub) > 0

StartsWith(s, p) == Len(s) >= Len(p) /\ SubSeq(s, 1, Len(p)) = p

\* String.prototype.split(sep) for a one-character separator: the pieces
\* between the separator positions.
SplitAt(s, cuts) ==
    [k \in 1..(Len(cuts) - 1) |-> SubSeq(s, cuts[k] + 1, cuts[k + 1] - 1)]

RECURSIVE SortedSeq(_)
SortedSeq(S) ==
    IF S = {} THEN <<>> ELSE <<MinOrZero(S)>> \o SortedSeq(S \ {MinOrZero(S)})

Split(s, sep) ==
    SplitAt(s, <<0>> \o SortedSeq({i \in 1..Len(s) : Ch(s, i) = sep}) \o <<Len(s) + 1>>)

\* Array.prototype.join(sep)
RECURSIVE Join(_, _)
Join(parts, sep) ==
    IF Len(parts) = 0 THEN ""
    ELSE IF Len(parts) = 1 THEN parts[1]
    ELSE parts[1] \o sep \o Join(Tail(parts), sep)

\* Array.prototype.filter(Boolean) on an array of strings
RECURSIVE FilterNonEmpty(_)
FilterNonEmpty(parts) ==
    IF Len(parts) = 0 THEN <<>>
    ELSE IF parts[1] = "" THEN FilterNonEmpty(Tail(parts))
    ELSE <<parts[1]>> \o FilterNonEmpty(Tail(parts))

LastPart(parts) == parts[Len(parts)]

\* Array.prototype.slice(-2)
SliceLast2(parts) ==
    IF Len(parts) <= 2 THEN parts ELSE SubSeq(parts, Len(parts) - 1, Len(parts))

AllDigits(s) == s # "" /\ \A i \in 1..Len(s) : IsDigit(Ch(s, i))

DigitVal(c) == (CHOOSE i \in 1..10 : Ch(DIGITS, i) = c) - 1

RECURSIVE ParseNat(_, _)
ParseNat(s, base) ==
    IF s = "" THEN 0
    ELSE ParseNat(SubSeq(s, 1, Len(s) - 1), base) * base + DigitVal(Ch(s, Len(s)))

RECURSIVE NatToStr(_)
NatToStr(n) ==
    IF n < 10 THEN Ch(DIGITS, n + 1)
    ELSE NatToStr(n \div 10) \o Ch(DIGITS, (n % 10) + 1)

\* ------------------------------------------------------------------------
\* Utilities (background.js 32-64)
\* ------------------------------------------------------------------------
getLabels(hostname) == FilterNonEmpty(Split(hostname, "."))

RegisteredOf(parts, hostname) ==
    IF Len(parts) >= 2 THEN Join(SliceLast2(parts), ".") ELSE hostname

getRegisteredDomain(hostname) == RegisteredOf(getLabels(hostname), hostname)

SecondLevelOf(parts) ==
    IF Len(parts) = 0 THEN ""
    ELSE IF Len(parts) >= 2 THEN ToLowerCase(parts[Len(parts) - 1])
    ELSE ToLowerCase(parts[1])

getSecondLevelLabel(hostname) == SecondLevelOf(getLabels(hostname))

\* /^\d{1,3}(\.\d{1,3}){3}$/
IsDottedQuad(parts) ==
    /\ Len(parts) = 4
    /\ \A i \in 1..4 : AllDigits(parts[i]) /\ Len(parts[i]) <= 3

isIpAddress(hostname) == IsDottedQuad(Split(hostname, "."))

isPunycode(hostname) == Includes(hostname, "xn--")

getTld(hostname) == ToLowerCase(LastPart(Split(hostname, ".")))

\* ------------------------------------------------------------------------
\* Levenshtein distance, iterative two-row form (background.js 67-83)
\* ------------------------------------------------------------------------
Min3(a, b, c) == Min2(a, Min2(b, c))

\* The inner loop over j for one a[i]: v1[j+1] = min(v1[j]+1, v0[j+1]+1,
\* v0[j]+cost).  Rows are sequences; index k holds the array's element k-1.
RECURSIVE LevInner(_, _, _, _, _)
LevInner(ai, b, v0, v1, j) ==
    IF j > Len(b) THEN v1
    ELSE LET cost == IF ai = Ch(b, j) THEN 0 ELSE 1
             x == Min3(v1[j] + 1, v0[j + 1] + 1, v0[j] + cost)
             next == Append(v1, x)
         IN  IF Len(next) = j + 1 THEN LevInner(ai, b, v0, next, j + 1) ELSE next

\* The outer loop over i: v1[0] = i + 1, the inner loop, then v0 = v1.
RECURSIVE LevOuter(_, _, _, _)
LevOuter(a, b, v0, i) ==
    IF i > Len(a) THEN v0
    ELSE LET v1 == LevInner(Ch(a, i), b, v0, <<i>>, 1)
         IN  IF Len(v1) = Len(b) + 1 THEN LevOuter(a, b, v1, i + 1) ELSE v1

\* A distance that only looks at the lengths.
levenshteinByLength(a, b) == IF Len(a) >= Len(b) THEN Len(a) - Len(b) ELSE Len(b) - Len(a)

levenshtein(a, b) ==
    IF a = b THEN 0
    ELSE IF Len(a) = 0 THEN Len(b)
    ELSE IF Len(b) = 0 THEN Len(a)
    ELSE LevOuter(a, b, [k \in 1..(Len(b) + 1) |-> k - 1], 1)[Len(b) + 1]

\* A distance is the exact fraction n/d (background.js 85-90).
normalizedDistance(a, b) ==
    [n |-> levenshtein(a, b), d |-> Max2(Max2(Len(a), Len(b)), 1)]

FracLess(x, y) == x.n * y.d < y.n * x.d
FracLeqPct(x, pct) == x.n * 100 <= pct * x.d
FracGtPct(x, pct) == x.n * 100 > pct * x.d

\* Number.prototype.toFixed(2) of a fraction in [0, 1]: nearest hundredth,
\* the larger one on a tie.
Hundredths(h) ==
    NatToStr(h \div 100) \o "." \o NatToStr((h % 100) \div 10) \o NatToStr(h % 10)

toFixed2(x) == Hundredths((200 * x.n + x.d) \div (2 * x.d))

\* ------------------------------------------------------------------------
\* The URL constructor, new URL(input[, base]) (used at background.js 26 and
\* 106).  The WHATWG parser is modelled for inputs made of letters, digits
\* and . - _ + : / \ ? # and the space: scheme, authority (host and port),
\* path.  Userinfo, percent-encoding, dot-segment removal, IDNA mapping,
\* IPv6 and hexadecimal IPv4 parts are not modelled; no input of the model
\* uses them.  The result is [ok, scheme, hostname, pathname]; ok = FALSE
\* is the TypeError the constructor throws.
\* ------------------------------------------------------------------------
URLFailure == [ok |-> FALSE, scheme |-> "", hostname |-> "", pathname |-> ""]

\* First index of a character of cs in s, or Len(s) + 1.
FirstOfIn(n, S) == IF S = {} THEN n + 1 ELSE MinOrZero(S)
FirstOf(s, cs) == FirstOfIn(Len(s), {i \in 1..Len(s) : Ch(s, i) \in cs})

LastIndexOf(s, c) == MaxOrZero({i \in 1..Len(s) : Ch(s, i) = c})

\* Length of the scheme (without the colon) when s starts with
\* ALPHA *( ALPHA / DIGIT / "+" / "-" / "." ) ":", else 0.
SchemeLenAt(s, c) ==
    IF /\ c >= 2 /\ c <= Len(s)
       /\ IsLetter(Ch(s, 1))
       /\ \A i \in 2..(c - 1) :
             IsLetter(Ch(s, i)) \/ IsDigit(Ch(s, i)) \/ Ch(s, i) \in {"+", "-", "."}
    THEN c - 1 ELSE 0

SchemeLen(s) == SchemeLenAt(s, FirstOf(s, {":"}))

SpecialSchemes == {"http", "https"}

ForbiddenHostChars == {" ", "#", "/", ":", "<", ">", "?", "@", "[", "\\", "]", "^", "|", "%"}

\* The IPv4 number of one part: octal with a leading 0, else decimal.
IPv4Part(part) ==
    IF Len(part) > 1 /\ Ch(part, 1) = "0"
    THEN IF \E i \in 1..Len(part) : Ch(part, i) \in {"8", "9"} THEN -1
         ELSE ParseNat(part, 8)
    ELSE ParseNat(part, 10)

\* The dot-separated parts of a host, one trailing empty part dropped.
DropLastEmpty(raw) ==
    IF Len(raw) > 1 /\ raw[Len(raw)] = "" THEN SubSeq(raw, 1, Len(raw) - 1) ELSE raw
HostParts(host) == DropLastEmpty(Split(host, "."))

\* The four bytes of n numbers, the last one filling the remaining bytes.
IPv4Bytes(nums, n) ==
    [i \in 1..(n - 1) |-> nums[i]]
    \o (IF n = 4 THEN <<nums[n]>>
        ELSE IF n = 3 THEN <<nums[n] \div 256, nums[n] % 256>>
        ELSE IF n = 2 THEN <<0, nums[n] \div 256, nums[n] % 256>>
        ELSE <<0, 0, nums[n] \div 256, nums[n] % 256>>)

IPv4Join(bytes) ==
    IF \E i \in 1..4 : bytes[i] > 255 THEN ""
    ELSE Join([i \in 1..4 |-> NatToStr(bytes[i])], ".")

IPv4Nums(nums, n) ==
    IF n > 4 \/ \E i \in 1..n : nums[i] < 0 THEN "" ELSE IPv4Join(IPv4Bytes(nums, n))

\* The IPv4 parser, for a host whose last label is a number: at most four
\* numeric parts.  "" marks a failure.  Parts of more than four digits are
\* outside the model.
IPv4Parts(parts) ==
    IPv4Nums([i \in 1..Len(parts) |-> IF AllDigits(parts[i]) /\ Len(parts[i]) <= 4
                                       THEN IPv4Part(parts[i]) ELSE -1],
             Len(parts))

IPv4Host(host) == IPv4Parts(HostParts(host))

EndsInNumber(host) == AllDigits(LastPart(HostParts(host)))

\* Host parsing of a special scheme, the input lowercased: "" marks a failure.
ParseLowerHost(host) ==
    IF host = "" THEN ""
    ELSE IF \E i \in 1..Len(host) : Ch(host, i) \in ForbiddenHostChars THEN ""
    ELSE IF EndsInNumber(host) THEN IPv4Host(host)
    ELSE host

ParseHost(input) == ParseLowerHost(ToLowerCase(input))

\* The path of what follows the authority: up to the query or fragment.
UpToQuery(rest) == SubSeq(rest, 1, FirstOf(rest, {"?", "#"}) - 1)
PathOf(rest) == IF UpToQuery(rest) = "" THEN "/" ELSE UpToQuery(rest)

ParsedHost(scheme, host, after) ==
    IF host = "" THEN URLFailure
    ELSE [ok |-> TRUE, scheme |-> scheme, hostname |-> host, pathname |-> PathOf(after)]

\* host and port of an authority, split at its last colon.
ParseHostPort(scheme, authority, colon, after) ==
    IF colon > 0 /\ colon < Len(authority)
       /\ ~AllDigits(SubSeq(authority, colon + 1, Len(authority)))
    THEN URLFailure
    ELSE ParsedHost(scheme,
                    ParseHost(IF colon = 0 THEN authority ELSE SubSeq(authority, 1, colon - 1)),
                    after)

\* scheme "://" authority path, the slashes already removed from rest; e is
\* the end of the authority.
ParseAuthorityAt(scheme, rest, e) ==
    ParseHostPort(scheme, SubSeq(rest, 1, e - 1), LastIndexOf(SubSeq(rest, 1, e - 1), ":"),
                  SubSeq(rest, e, Len(rest)))

ParseAuthority(scheme, rest) ==
    ParseAuthorityAt(scheme, rest, FirstOf(rest, {"/", "\\", "?", "#"}))

RECURSIVE StripSlashes(_)
StripSlashes(s) ==
    IF s # "" /\ Ch(s, 1) \in {"/", "\\"} THEN StripSlashes(SubSeq(s, 2, Len(s))) ELSE s

\* A non-special scheme followed by "//": an opaque host.
OpaqueHost(scheme, host, after) ==
    IF \E i \in 1..Len(host) : Ch(host, i) \in (ForbiddenHostChars \ {"%"})
    THEN URLFailure
    ELSE [ok |-> TRUE, scheme |-> scheme, hostname |-> host, pathname |-> UpToQuery(after)]

OpaqueAt(scheme, r, e) == OpaqueHost(scheme, SubSeq(r, 1, e - 1), SubSeq(r, e, Len(r)))

\* An input that carries its own scheme, of length n.
ParseScheme(scheme, rest) ==
    IF scheme \in SpecialSchemes THEN ParseAuthority(scheme, StripSlashes(rest))
    ELSE IF StartsWith(rest, "//")
         THEN OpaqueAt(scheme, SubSeq(rest, 3, Len(rest)),
                       FirstOf(SubSeq(rest, 3, Len(rest)), {"/", "?", "#"}))
         ELSE [ok |-> TRUE, scheme |-> scheme, hostname |-> "", pathname |-> UpToQuery(rest)]

ParseAbsolute(input, n) ==
    ParseScheme(ToLowerCase(SubSeq(input, 1, n)), SubSeq(input, n + 2, Len(input)))

\* new URL(input)
URL1At(input, n) == IF n = 0 THEN URLFailure ELSE ParseAbsolute(input, n)
URL1(input) == URL1At(input, SchemeLen(input))

\* A relative reference against a parsed base.
Relative(input, base, rel) ==
    IF Len(input) >= 2 /\ Ch(input, 1) \in {"/", "\\"} /\ Ch(input, 2) \in {"/", "\\"}
    THEN ParseAuthority(base.scheme, SubSeq(input, 3, Len(input)))
    ELSE IF input # "" /\ Ch(input, 1) \in {"/", "\\"}
    THEN [base EXCEPT !.pathname = PathOf(input)]
    ELSE IF rel = "" THEN base
    ELSE [base EXCEPT !.pathname =
             SubSeq(base.pathname, 1, LastIndexOf(base.pathname, "/")) \o rel]

URL2At(input, base, n) ==
    IF ~base.ok THEN URLFailure
    ELSE IF n > 0 THEN ParseAbsolute(input, n)
    ELSE Relative(input, base, UpToQuery(input))

\* new URL(input, base): base is itself parsed first.
URL2(input, baseInput) == URL2At(input, URL1(baseInput), SchemeLen(input))

\* ------------------------------------------------------------------------
\* safeGetHostname (background.js 19-30).  The argument is the string the
\* regular expressions and the URL constructor coerce it to.
\* ------------------------------------------------------------------------
\* /^https?:\/\//i
TestHttpScheme(s) ==
    LET l == ToLowerCase(s) IN StartsWith(l, "http://") \/ StartsWith(l, "https://")

\* /^[a-z0-9.-]+$/i
TestBareHost(s) ==
    /\ s # ""
    /\ \A i \in 1..Len(s) : IsLetter(Ch(s, i)) \/ IsDigit(Ch(s, i)) \/ Ch(s, i) \in {".", "-"}

HostnameOrInput(u, input) == IF u.ok THEN ToLowerCase(u.hostname) ELSE ToLowerCase(input)

ParseOrFallBack(input) == HostnameOrInput(URL1(input), input)

safeGetHostname(urlOrHost) ==
    IF urlOrHost = "" THEN ""
    ELSE IF TestHttpScheme(urlOrHost) THEN ParseOrFallBack(urlOrHost)
    ELSE IF TestBareHost(urlOrHost) THEN ToLowerCase(urlOrHost)
    ELSE ParseOrFallBack("https://" \o urlOrHost)

\* ------------------------------------------------------------------------
\* Program state
\* ------------------------------------------------------------------------
VARIABLES
    TRUSTED_REGISTERED_DOMAINS, \* the module-level Set (background.js 5), in insertion order
    storage,                    \* chrome.storage.sync "trustedDomains": <<>> when unset, else <<array>>
    inflight,                   \* analyzeProfile messages being handled by the listener
    notificationsSent,          \* notificationsSent (background.js 16)
    local,                      \* chrome.storage.local: origin -> the lastResult saved for it
    badge,                      \* the badge text of the sender's tab
    call,                       \* the latest call of analyzeProfileCore: arguments and outcome
    profileResponse,            \* the latest response to an analyzeProfile message
    alertResponse,              \* the latest response to a phish_alert message
    notifications,              \* chrome.notifications.create calls, counted per message (id, origin)
    now,                        \* Date.now()
    probe                       \* arguments and value of a utility function applied on its own

\* What the phish_alert branch reads and writes, and the rest.
alertVars == <<notificationsSent, alertResponse, notifications, now>>

vars == <<TRUSTED_REGISTERED_DOMAINS, storage, inflight, local, badge, call, profileResponse,
          alertVars, probe>>

\* ------------------------------------------------------------------------
\* Configuration (background.js 5-13, 93-95)
\* ------------------------------------------------------------------------
DEFAULT_TRUSTED == <<"facebook.com", "tiktok.com">>

TYPOSQUAT_DISTANCE_THRESHOLD == 30
TYPOSQUAT_SCORE_BUMP == 75

RISKY_TLDS == {"xyz", "top", "club", "pw", "icu", "work", "gq", "cf", "tk", "ml",
               "ga", "biz", "click", "win", "loan", "party"}

LINK_LIMIT == 40
TEXT_SAMPLE_LIMIT == 4000

\* Set.prototype.has on a Set kept as its insertion-ordered sequence.
SetHas(set, x) == \E i \in 1..Len(set) : set[i] = x

\* new Set(array): first occurrences, in order.
RECURSIVE NewSet(_)
NewSet(arr) ==
    IF Len(arr) = 0 THEN <<>>
    ELSE LET init == NewSet(SubSeq(arr, 1, Len(arr) - 1))
         IN  IF SetHas(init, arr[Len(arr)]) THEN init ELSE Append(init, arr[Len(arr)])

\* background.js 97-101: reads the module-level Set.
\* hostIsTrustedExact with the value G the module-level Set holds when it runs.
TrustedExactIn(G, hostname) ==
    IF hostname = "" THEN FALSE
    ELSE SetHas(G, ToLowerCase(getRegisteredDomain(hostname)))

hostIsTrustedExact(hostname) == TrustedExactIn(TRUSTED_REGISTERED_DOMAINS, hostname)

\* ------------------------------------------------------------------------
\* Link analysis (background.js 104-154).  The result is the risk value in
\* hundredths and the reasons array after the push.
\* ------------------------------------------------------------------------
SuspiciousPathPatterns ==
    <<"verify", "confirm", "signin", "login", "account", "secure", "billing", "payment">>
BrandTokens == <<"secure", "login", "paypal", "bank", "apple", "google", "microsoft">>

\* for (const p of list) if (s.includes(p)) ...: index of the first hit, or 0.
FirstIncluded(s, list) == MinOrZero({i \in 1..Len(list) : Includes(s, list[i])})

\* Lines 131-149, host and path computed.
LinkTokens(linkUrl, pageHostnameNormalized, reasons, url, host, pi, ti) ==
    IF pi > 0 THEN
        [risk |-> 10, reasons |-> Append(reasons,
            "Link path contains suspicious token \"" \o SuspiciousPathPatterns[pi]
            \o "\" (" \o url.pathname \o ")")]
    ELSE IF host # pageHostnameNormalized /\ ti > 0 THEN
        [risk |-> 14, reasons |-> Append(reasons,
            "External link appears to impersonate brand token \"" \o BrandTokens[ti]
            \o "\" (" \o host \o ")")]
    ELSE [risk |-> 0, reasons |-> reasons]

\* The rules with the path tokens looked at before the host.
LinkRulesPathFirst(linkUrl, pageHostnameNormalized, reasons, url, host, path, tld) ==
    IF FirstIncluded(path, SuspiciousPathPatterns) > 0 THEN
        LinkTokens(linkUrl, pageHostnameNormalized, reasons, url, host,
                   FirstIncluded(path, SuspiciousPathPatterns), 0)
    ELSE IF host = "" THEN
        [risk |-> 2, reasons |-> Append(reasons, "Empty host for link: " \o linkUrl)]
    ELSE IF isIpAddress(host) THEN
        [risk |-> 20, reasons |-> Append(reasons, "Link uses raw IP address (" \o host \o ")")]
    ELSE IF isPunycode(host) THEN
        [risk |-> 18, reasons |-> Append(reasons, "Link contains punycode domain (" \o host \o ")")]
    ELSE IF tld \in RISKY_TLDS THEN
        [risk |-> 12, reasons |-> Append(reasons,
            "Link uses uncommon TLD ." \o tld \o " (" \o host \o ")")]
    ELSE LinkTokens(linkUrl, pageHostnameNormalized, reasons, url, host,
                    0, FirstIncluded(host, BrandTokens))

\* Lines 110-149.
LinkRules(linkUrl, pageHostnameNormalized, reasons, url, host, path, tld) ==
    IF host = "" THEN
        [risk |-> 2, reasons |-> Append(reasons, "Empty host for link: " \o linkUrl)]
    ELSE IF isIpAddress(host) THEN
        [risk |-> 20, reasons |-> Append(reasons, "Link uses raw IP address (" \o host \o ")")]
    ELSE IF isPunycode(host) THEN
        [risk |-> 18, reasons |-> Append(reasons, "Link contains punycode domain (" \o host \o ")")]
    ELSE IF tld \in RISKY_TLDS THEN
        [risk |-> 12, reasons |-> Append(reasons,
            "Link uses uncommon TLD ." \o tld \o " (" \o host \o ")")]
    ELSE LinkTokens(linkUrl, pageHostnameNormalized, reasons, url, host,
                    FirstIncluded(path, SuspiciousPathPatterns), FirstIncluded(host, BrandTokens))

\* Lines 105-153, the URL parsed: a failure is the catch branch.
LinkParsed(linkUrl, pageHostnameNormalized, reasons, url) ==
    IF ~url.ok THEN
        [risk |-> 5, reasons |-> Append(reasons, "Malformed/relative link flagged: " \o linkUrl)]
    ELSE LinkRules(linkUrl, pageHostnameNormalized, reasons, url, ToLowerCase(url.hostname),
                   ToLowerCase(url.pathname), getTld(ToLowerCase(url.hostname)))

linkIsSuspicious(linkUrl, pageHostnameNormalized, reasons) ==
    LinkParsed(linkUrl, pageHostnameNormalized, reasons,
               URL2(linkUrl, "https://" \o (IF pageHostnameNormalized = "" THEN "example.com"
                                            ELSE pageHostnameNormalized)))

\* ------------------------------------------------------------------------
\* JavaScript values of the payload.  A string field holds the string the
\* code coerces it to, "" when the property is absent.  An array-valued
\* field is [t, v]: an array ("arr", with its elements v), undefined
\* ("undef"), a non-zero number ("num") or a plain object without length
\* or iterator ("obj").  A form is a FormDescriptor ("form") or null.
\* ------------------------------------------------------------------------
JsArr(v) == [t |-> "arr", v |-> v]
JsUndef == [t |-> "undef", v |-> <<>>]
JsNum == [t |-> "num", v |-> <<>>]
JsObj == [t |-> "obj", v |-> <<>>]

Form(action, inputCount, hasPassword) ==
    [t |-> "form", action |-> action, inputCount |-> inputCount, hasPassword |-> hasPassword]
NullForm == [t |-> "null", action |-> "", inputCount |-> 0, hasPassword |-> FALSE]

\* a || b on strings
OrStr(a, b) == IF a # "" THEN a ELSE b

\* String.prototype.trim, for the space
RECURSIVE TrimStart(_)
TrimStart(s) == IF s # "" /\ Ch(s, 1) = " " THEN TrimStart(SubSeq(s, 2, Len(s))) ELSE s
RECURSIVE TrimEnd(_)
TrimEnd(s) ==
    IF s # "" /\ Ch(s, Len(s)) = " " THEN TrimEnd(SubSeq(s, 1, Len(s) - 1)) ELSE s

\* background.js 62-64
normalizeText(s) == ToLowerCase(TrimEnd(TrimStart(s)))

\* s.replace(/^prefix/, '')
StripPrefix(s, prefix) ==
    IF StartsWith(s, prefix) THEN SubSeq(s, Len(prefix) + 1, Len(s)) ELSE s

\* ------------------------------------------------------------------------
\* analyzeProfileCore (background.js 157-337), one operator per block.  The
\* running state st holds the local variables score, suspicious and reasons;
\* score counts units of 1/(100 * U), so a weight of w hundredths is w * U.
\* st.trace records score and suspicious after each block.
\* ------------------------------------------------------------------------
Snap(st) == [score |-> st.score, suspicious |-> st.suspicious]

NoSnap == [score |-> 0, suspicious |-> FALSE]
NoSimSnap == [score |-> 0, suspicious |-> FALSE, reasons |-> 0]

EmptyTrace ==
    [init |-> NoSnap, sim |-> NoSimSnap, typo |-> NoSnap, https |-> NoSnap, forms |-> <<>>, links |-> NoSnap,
     text |-> NoSnap, host |-> NoSnap, canon |-> NoSnap, damp |-> NoSnap,
     reasonsBeforeDamp |-> <<>>]

Mark(st, block) == [st EXCEPT !.trace[block] = Snap(st)]

\* The two minimum searches of the typosquat block (181-185, 193-196):
\* strict "<" keeps the first trusted domain attaining the minimum.
\* A search that lets a later trusted domain at the same distance win.
CloserOrEqual(best, td, tdKey, d) ==
    IF ~FracLess(best.dist, d) THEN [domain |-> td, dist |-> d, sld |-> tdKey] ELSE best

Closer(best, td, tdKey, d) ==
    IF FracLess(d, best.dist) THEN [domain |-> td, dist |-> d, sld |-> tdKey] ELSE best

RECURSIVE BestMatch(_, _, _, _, _)
BestMatch(TRUSTED, current, bySld, i, best) ==
    IF i > Len(TRUSTED) THEN best
    ELSE BestMatch(TRUSTED, current, bySld, i + 1,
                   Closer(best, TRUSTED[i],
                          IF bySld THEN getSecondLevelLabel(TRUSTED[i]) ELSE TRUSTED[i],
                          normalizedDistance(current,
                              IF bySld THEN getSecondLevelLabel(TRUSTED[i]) ELSE TRUSTED[i])))

NoMatch == [domain |-> "", dist |-> [n |-> 1, d |-> 1], sld |-> ""]

BRAND_KEYWORDS ==
    << <<"facebook", <<"faceb", "fbk", "fb", "facebok", "faceboek", "faceboook">> >>,
       <<"tiktok", <<"tiktok", "ttk", "tik-tok">> >> >>

\* Lines 210-218, flattened to the (brand, keyword) pairs in iteration order.
BrandPairs ==
    [i \in 1..Len(BRAND_KEYWORDS[1][2]) |-> <<BRAND_KEYWORDS[1][1], BRAND_KEYWORDS[1][2][i]>>]
    \o [i \in 1..Len(BRAND_KEYWORDS[2][2]) |-> <<BRAND_KEYWORDS[2][1], BRAND_KEYWORDS[2][2][i]>>]

RECURSIVE BrandLoop(_, _, _, _)
BrandLoop(st, currentSld, U, i) ==
    IF i > Len(BrandPairs) THEN st
    ELSE BrandLoop(
            IF currentSld # "" /\ Includes(currentSld, BrandPairs[i][2])
            THEN [st EXCEPT !.score = Max2(@, 65 * U), !.suspicious = TRUE,
                            !.reasons = Append(@,
                                "Domain SLD \"" \o currentSld \o "\" contains brand-like token \""
                                \o BrandPairs[i][2] \o "\" (looks like " \o BrandPairs[i][1] \o ")")]
            ELSE st,
            currentSld, U, i + 1)

\* A typosquat match that leaves the score alone.
TyposquatHitNoBump(st, reason, U) ==
    [st EXCEPT !.suspicious = TRUE, !.reasons = Append(@, reason)]

TyposquatHit(st, reason, U) ==
    [st EXCEPT !.score = Max2(@, TYPOSQUAT_SCORE_BUMP * U), !.suspicious = TRUE,
               !.reasons = Append(@, reason)]

\* Lines 187-204, the two searches done.
TyposquatMatch(st, currentReg, currentSld, best, bestFull, U) ==
    IF best.domain # "" /\ FracLeqPct(best.dist, TYPOSQUAT_DISTANCE_THRESHOLD)
    THEN TyposquatHit(st,
            "Domain SLD \"" \o currentSld \o "\" closely resembles trusted SLD \""
            \o best.sld \o "\" (distance " \o toFixed2(best.dist)
            \o "). Treated as typosquat (" \o currentReg \o " ~ " \o best.domain \o ").", U)
    ELSE IF bestFull.domain # "" /\ FracLeqPct(bestFull.dist, TYPOSQUAT_DISTANCE_THRESHOLD)
    THEN TyposquatHit(st,
            "Registered domain \"" \o currentReg \o "\" somewhat resembles trusted domain \""
            \o bestFull.domain \o "\" (distance " \o toFixed2(bestFull.dist) \o ").", U)
    ELSE [st EXCEPT !.reasons = Append(@, "No similarity to trusted domains detected")]

\* The running values where the similarity searches end (line 204) and the
\* brand-keyword loop begins (206).
MarkSim(st) ==
    [st EXCEPT !.trace.sim = [score |-> st.score, suspicious |-> st.suspicious,
                              reasons |-> Len(st.reasons)]]

TyposquatBody(st, currentReg, currentSld, TRUSTED, U) ==
    IF ~SetHas(TRUSTED, currentReg)
    THEN BrandLoop(MarkSim(TyposquatMatch(st, currentReg, currentSld,
                                  BestMatch(TRUSTED, currentSld, TRUE, 1, NoMatch),
                                  BestMatch(TRUSTED, currentReg, FALSE, 1, NoMatch), U)),
                   currentSld, U, 1)
    ELSE MarkSim([st EXCEPT !.reasons = Append(@, "Exact registered domain is trusted")])

\* Lines 175-224.
TyposquatBlock(st, pageHostname, TRUSTED, U) ==
    TyposquatBody(st, ToLowerCase(getRegisteredDomain(pageHostname)),
                  getSecondLevelLabel(pageHostname), TRUSTED, U)

\* Lines 227-231.  /^https:/i
HttpsBlock(st, url, trustedExact, U) ==
    IF ~StartsWith(ToLowerCase(url), "https:")
    THEN [st EXCEPT !.reasons = Append(@, "Page not served over HTTPS"),
                    !.score = IF trustedExact /\ ~st.suspicious
                              THEN Min2(@ + 20 * U, 5 * U) ELSE @ + 20 * U]
    ELSE st

\* Lines 237-242, actionHost computed.
LoginFormCheck(st, actionHost, pageHostname, U) ==
    IF /\ actionHost # ""
       /\ actionHost # pageHostname
       /\ ~Includes(actionHost, Join(SliceLast2(Split(pageHostname, ".")), "."))
    THEN [st EXCEPT !.reasons = Append(@, "Login form posts to external host ("
                                          \o actionHost \o ")"),
                    !.score = @ + 40 * U, !.suspicious = TRUE]
    ELSE st

\* The body of the forms loop for one form (235-250).  Reading a property of
\* a null form throws inside the try.
FormBody(st, f, pageHostname, trustedExact, U) ==
    IF f.t = "null"
    THEN [st EXCEPT !.reasons = Append(@, "Malformed form action detected"),
                    !.score = @ + 4 * U]
    ELSE IF f.hasPassword /\ f.action # ""
    THEN LoginFormCheck(st, safeGetHostname(f.action), pageHostname, U)
    ELSE IF f.inputCount > 0 /\ ~f.hasPassword /\ f.action # ""
    THEN [st EXCEPT !.reasons = Append(@,
                        "Form with inputs but no password field (possible data harvesting)"),
                    !.score = @ + (IF trustedExact THEN 2 ELSE 6) * U]
    ELSE st

MarkForm(st) == [st EXCEPT !.trace.forms = Append(@, Snap(st))]

\* Lines 233-251.
RECURSIVE FormsBlock(_, _, _, _, _, _)
FormsBlock(st, forms, i, pageHostname, trustedExact, U) ==
    IF i > Len(forms) THEN st
    ELSE FormsBlock(MarkForm(FormBody(st, forms[i], pageHostname, trustedExact, U)),
                    forms, i + 1, pageHostname, trustedExact, U)

AddLink(acc, r) == [sum |-> acc.sum + r.risk, reasons |-> r.reasons]

\* The loop over links.slice(0, 40) (257-260): [sum, reasons].  (The test
\* of acc.sum only makes acc be evaluated before the next iteration.)
RECURSIVE LinksLoop(_, _, _, _)
LinksLoop(acc, links, pageHostname, i) ==
    IF i > Min2(Len(links), LINK_LIMIT) \/ acc.sum < 0 THEN acc
    ELSE LinksLoop(AddLink(acc, linkIsSuspicious(links[i], pageHostname, acc.reasons)),
                   links, pageHostname, i + 1)

\* Lines 261-263.  linkRiskSum / links.length is sum hundredths over
\* U = links.length, that is sum units.
LinksTotal(st, loop, maxLinkContribution, U) ==
    [st EXCEPT !.score = @ + Min2(maxLinkContribution * U, loop.sum),
               !.suspicious = @ \/ Min2(maxLinkContribution * U, loop.sum) >= 30 * U,
               !.reasons = loop.reasons]

\* Lines 254-264.
LinksBlock(st, links, pageHostname, trustedExact, U) ==
    IF links.t = "arr" /\ Len(links.v) > 0
    THEN LinksTotal(st, LinksLoop([sum |-> 0, reasons |-> st.reasons], links.v, pageHostname, 1),
                    IF trustedExact THEN 15 ELSE 40, U)
    ELSE st

RedFlags ==
    <<"your account will be locked", "verify your account", "click here to verify",
      "confirm your identity", "payment required", "suspend", "urgent action required">>

RECURSIVE RedFlagLoop(_, _, _, _, _)
RedFlagLoop(st, lower, trustedExact, U, i) ==
    IF i > Len(RedFlags) THEN st
    ELSE RedFlagLoop(
            IF Includes(lower, RedFlags[i])
            THEN [st EXCEPT !.reasons = Append(@, "Suspicious page text matched: \""
                                                  \o RedFlags[i] \o "\""),
                            !.score = @ + (IF trustedExact THEN 20 ELSE 8) * U,
                            !.suspicious = TRUE]
            ELSE st,
            lower, trustedExact, U, i + 1)

\* Lines 267-280.
TextBlock(st, textSample, trustedExact, U) ==
    IF textSample # "" THEN RedFlagLoop(st, ToLowerCase(textSample), trustedExact, U, 1) ELSE st

\* Lines 283-287.
PunycodeCheck(st, pageHostname, U) ==
    IF isPunycode(pageHostname)
    THEN [st EXCEPT !.reasons = Append(@, "Page hostname uses punycode"),
                    !.score = @ + 40 * U, !.suspicious = TRUE]
    ELSE st

\* The IP check adding its weight without setting suspicious.
IpAddressCheckNoFlag(st, pageHostname, U) ==
    IF isIpAddress(pageHostname)
    THEN [st EXCEPT !.reasons = Append(@, "Page served from IP address"),
                    !.score = @ + 40 * U]
    ELSE st

\* Lines 288-292.
IpAddressCheck(st, pageHostname, U) ==
    IF isIpAddress(pageHostname)
    THEN [st EXCEPT !.reasons = Append(@, "Page served from IP address"),
                    !.score = @ + 40 * U, !.suspicious = TRUE]
    ELSE st

\* Lines 283-292.
HostnameBlock(st, pageHostname, U) ==
    IpAddressCheck(PunycodeCheck(st, pageHostname, U), pageHostname, U)

\* Lines 300-307, norm computed.
CanonicalCompare(st, norm, trustedExact, U) ==
    IF FracGtPct(norm, 35)
    THEN [st EXCEPT !.reasons = Append(@, "Canonical/OG domain mismatch (normalized distance "
                                          \o toFixed2(norm) \o ")"),
                    !.score = @ + (IF trustedExact THEN 20 ELSE 12) * U,
                    !.suspicious = TRUE]
    ELSE IF ~trustedExact
         THEN [st EXCEPT !.reasons = Append(@, "Canonical/OG domain matches page")]
         ELSE st

CanonicalBody(st, canonicalHost, pageHostname, trustedExact, U) ==
    IF canonicalHost # "" /\ pageHostname # ""
    THEN CanonicalCompare(st, normalizedDistance(StripPrefix(canonicalHost, "www."),
                                                 StripPrefix(pageHostname, "www.")),
                          trustedExact, U)
    ELSE st

\* Lines 295-310.
CanonicalBlock(st, ogUrl, canonicalProp, pageHostname, trustedExact, U) ==
    IF OrStr(ogUrl, canonicalProp) # ""
    THEN CanonicalBody(st, safeGetHostname(OrStr(ogUrl, canonicalProp)), pageHostname,
                       trustedExact, U)
    ELSE st

WeakPatterns ==
    <<"hyphen", "subdomain", "depth", "no similarity to trusted domains detected",
      "multiple capitalized tokens">>

\* weakPatterns.some(rx => rx.test(reason)), every pattern being /.../i
IsWeak(reason) == FirstIncluded(ToLowerCase(reason), WeakPatterns) > 0

\* Lines 315-317: every weak entry is spliced out, the others keep their order.
KeepReason(reason) == ~IsWeak(reason)
RemoveWeak(reasons) == SelectSeq(reasons, KeepReason)

\* The final handling applied to every trusted page, flagged or not.
FinalTrustedBlockAlways(st, trustedExact, U) ==
    IF trustedExact
    THEN [st EXCEPT !.reasons = RemoveWeak(@), !.score = Min2(@, 5 * U),
                    !.trace.reasonsBeforeDamp = st.reasons]
    ELSE [st EXCEPT !.trace.reasonsBeforeDamp = st.reasons]

\* Lines 313-319.
FinalTrustedBlock(st, trustedExact, U) ==
    IF trustedExact /\ ~st.suspicious
    THEN [st EXCEPT !.reasons = RemoveWeak(@), !.score = Min2(@, 5 * U),
                    !.trace.reasonsBeforeDamp = st.reasons]
    ELSE [st EXCEPT !.trace.reasonsBeforeDamp = st.reasons]

\* A clamp without the upper bound.
ClampScoreNoUpper(st, U) == [st EXCEPT !.score = Max2(0, @)]

\* Line 321.
ClampScore(st, U) == [st EXCEPT !.score = Max2(0, Min2(100 * U, @))]

\* A decision taken from the score alone.
DecideByScoreOnly(st, U) == [st EXCEPT !.suspicious = (st.score >= 55 * U)]

\* Lines 322-323.
Decide(st, U) == [st EXCEPT !.suspicious = (@ \/ st.score >= 55 * U)]

FinalDecision(st, U) == Decide(ClampScore(st, U), U)

\* A payload with no property set, and the values data can take: an object,
\* null, undefined (the default {} applies) or a primitive (every property
\* reads undefined).
EmptyPayload ==
    [kind |-> "object",
     username |-> "", handle |-> "", user |-> "",
     displayName |-> "", fullName |-> "", title |-> "",
     url |-> "", pageUrl |-> "", origin |-> "", hostname |-> "",
     links |-> JsUndef, linkList |-> JsUndef, forms |-> JsUndef, formList |-> JsUndef,
     textSample |-> "", ogUrl |-> "", canonical |-> "",
     isVerified |-> FALSE, isBrand |-> FALSE]
NullPayload == [EmptyPayload EXCEPT !.kind = "null"]
UndefinedPayload == [EmptyPayload EXCEPT !.kind = "undefined"]
PrimitivePayload == [EmptyPayload EXCEPT !.kind = "primitive"]

\* The trustedSet argument: a Set (its elements in insertion order) or null.
TrustedArg(elems) == [isSet |-> TRUE, v |-> elems]
NoTrustedArg == [isSet |-> FALSE, v |-> <<>>]

\* What a call that throws leaves: no result.
Thrown ==
    [threw |-> TRUE, suspicious |-> FALSE, score |-> 0, U |-> 1, reasons |-> <<>>,
     details |-> [username |-> "", displayName |-> "", isVerified |-> FALSE,
                  isBrand |-> FALSE, pageHostname |-> "", url |-> "",
                  linksCount |-> 0, formsCount |-> 0],
     trustedExact |-> FALSE, trace |-> EmptyTrace]

\* Lines 325-336: the returned object, with the unit U of its score
\* (score / (100 * U) is the JavaScript number), the trustedExact local and
\* the trace.  linksCount is -1 for undefined.
Returned(d, url, pageHostname, links, forms, U, trustedExact, st) ==
    [threw |-> FALSE, suspicious |-> st.suspicious, score |-> st.score, U |-> U,
     reasons |-> st.reasons,
     details |-> [username |-> StripPrefix(normalizeText(OrStr(d.username, OrStr(d.handle, d.user))), "@"),
                  displayName |-> normalizeText(OrStr(d.displayName, OrStr(d.fullName, d.title))),
                  isVerified |-> d.isVerified, isBrand |-> d.isBrand,
                  pageHostname |-> pageHostname, url |-> url,
                  linksCount |-> IF links.t = "arr" THEN Len(links.v) ELSE -1,
                  formsCount |-> Len(forms.v)],
     trustedExact |-> trustedExact, trace |-> st.trace]

\* Lines 169-323 in order, the locals of 158-170 computed.
CoreBlocks(d, TRUSTED, url, pageHostname, links, forms, U, trustedExact) ==
    Returned(d, url, pageHostname, links, forms, U, trustedExact,
      FinalDecision(
        Mark(FinalTrustedBlock(
          Mark(CanonicalBlock(
            Mark(HostnameBlock(
              Mark(TextBlock(
                Mark(LinksBlock(
                  FormsBlock(
                    Mark(HttpsBlock(
                      Mark(TyposquatBlock(
                        Mark([score |-> (IF trustedExact THEN 2 ELSE 25) * U,
                              suspicious |-> FALSE, reasons |-> <<>>,
                              trace |-> EmptyTrace], "init"),
                        pageHostname, TRUSTED, U), "typo"),
                      url, trustedExact, U), "https"),
                    forms.v, 1, pageHostname, trustedExact, U),
                  links, pageHostname, trustedExact, U), "links"),
                SubSeq(d.textSample, 1, Min2(Len(d.textSample), TEXT_SAMPLE_LIMIT)),
                trustedExact, U), "text"),
              pageHostname, U), "host"),
            d.ogUrl, d.canonical, pageHostname, trustedExact, U), "canon"),
          trustedExact, U), "damp"),
        U))

\* Lines 164-170: pageHostname, links, forms, trustedExact.  A forms value
\* that is not an array is not iterable: the for-of of line 234 throws.
\* G is the value of the module-level Set during the call.
CoreLocals(G, d, TRUSTED, url, pageHostname, links, forms) ==
    IF forms.t # "arr" THEN Thrown
    ELSE CoreBlocks(d, TRUSTED, url, pageHostname, links, forms,
                    IF links.t = "arr" THEN Max2(1, Len(links.v)) ELSE 1,
                    TrustedExactIn(G, pageHostname))

\* Array.isArray(x) ? x : (y || [])   (165, 166)
ArrayOr(x, y) == IF x.t = "arr" THEN x ELSE IF y.t = "undef" THEN JsArr(<<>>) ELSE y

CoreUrl(G, d, TRUSTED, url) ==
    CoreLocals(G, d, TRUSTED, url,
               OrStr(safeGetHostname(url),
                     IF d.hostname # "" THEN safeGetHostname(d.hostname) ELSE ""),
               ArrayOr(d.links, d.linkList), ArrayOr(d.forms, d.formList))

\* analyzeProfileCore(data = {}, trustedSet = null) run while the
\* module-level Set holds G.  Reading a property of null throws (line 160);
\* undefined takes the default {} and a primitive reads every property as
\* undefined.
CoreIn(G, data, trustedSet) ==
    IF data.kind = "null" THEN Thrown
    ELSE CoreUrl(G, IF data.kind = "object" THEN data ELSE EmptyPayload,
                 IF trustedSet.isSet THEN trustedSet.v ELSE G,
                 IF data.kind = "object"
                 THEN OrStr(data.url, OrStr(data.pageUrl, data.origin)) ELSE "")

analyzeProfileCore(data, trustedSet) == CoreIn(TRUSTED_REGISTERED_DOMAINS, data, trustedSet)

\* ------------------------------------------------------------------------
\* Inputs of the model
\* ------------------------------------------------------------------------
MaxForms == 2          \* forms per payload
MaxExtraLinks == 5     \* links supplied beyond the first LINK_LIMIT

PageUrls ==
    {"https://www.facebook.com/profile", "http://facebook.com/", "https://faceboook.com/",
     "https://mybank.com/login", "https://mybank.com./", "http://192.168.0.1/admin",
     "https://xn--pypal-4ve.com/", "http://bad host/", ""}

FormPool ==
    {Form("http://evil.example/collect", 2, TRUE),
     Form("https://evil.com./collect", 1, TRUE),
     Form("https://login.mybank.com/session", 2, TRUE),
     Form("http://bad host/", 1, TRUE),
     Form("http://bad host/", 1, FALSE),
     Form("/search", 1, FALSE),
     NullForm}

RECURSIVE SeqsUpTo(_, _)
SeqsUpTo(S, n) ==
    IF n = 0 THEN {<<>>}
    ELSE SeqsUpTo(S, n - 1) \cup {Append(q, x) : q \in {r \in SeqsUpTo(S, n - 1) : Len(r) = n - 1}, x \in S}

Rep(x, n) == [i \in 1..n |-> x]

LinkPool ==
    {"/ok", "/account/login", "http://10.0.0.1/", "https://xn--a.com/", "https://free.xyz/",
     "https://paypal-help.com/", "mailto:me", "http://bad host/"}

\* Link lists: every single link of the pool, and runs of a head link up to
\* and past the limit followed by a run of a tail link.
LinkLists ==
    {<<>>} \cup {<<l>> : l \in LinkPool}
    \cup {Rep(h, n) \o Rep(t, m) :
            h \in {"/ok", "http://10.0.0.1/", "/account/login"},
            t \in {"http://10.0.0.1/"},
            n \in {LINK_LIMIT - 1, LINK_LIMIT},
            m \in {0, 1, MaxExtraLinks}}

Texts == {"", "Welcome back", "URGENT action required: Verify your account or we suspend it"}

Canonicals == {"", "https://www.facebook.com/", "https://mybank.com/", "https://other.org/"}

\* Payloads, by the block they exercise.
FormPayloads ==
    {[EmptyPayload EXCEPT !.url = u, !.forms = JsArr(f)] :
        u \in {"https://www.facebook.com/profile", "https://mybank.com/login",
               "https://mybank.com./", "http://192.168.0.1/admin"},
        f \in SeqsUpTo(FormPool, MaxForms)}

LinkPayloads ==
    {[EmptyPayload EXCEPT !.url = u, !.links = JsArr(l)] :
        u \in {"https://www.facebook.com/profile", "https://mybank.com/login", "http://bad host/"},
        l \in LinkLists}

TextPayloads ==
    {[EmptyPayload EXCEPT !.url = u, !.textSample = t, !.canonical = c] :
        u \in PageUrls, t \in Texts, c \in Canonicals}

MixedPayloads ==
    {[EmptyPayload EXCEPT !.pageUrl = u, !.linkList = JsArr(l), !.forms = JsArr(f),
                          !.textSample = t, !.ogUrl = "https://other.org/",
                          !.username = " @Some.User ", !.title = " Log In ", !.isVerified = TRUE] :
        u \in {"http://facebook.com/", "https://faceboook.com/", "http://192.168.0.1/admin"},
        l \in {Rep("http://10.0.0.1/", 2), <<"/ok", "https://free.xyz/", "/account/login">>},
        f \in {<<Form("http://evil.example/collect", 2, TRUE), Form("/search", 1, FALSE)>>},
        t \in Texts}

OddPayloads ==
    {NullPayload, UndefinedPayload, PrimitivePayload, EmptyPayload,
     [EmptyPayload EXCEPT !.url = "https://mybank.com/login", !.formList = JsNum],
     [EmptyPayload EXCEPT !.url = "https://mybank.com/login", !.formList = JsObj],
     [EmptyPayload EXCEPT !.url = "https://mybank.com/login", !.forms = JsNum],
     [EmptyPayload EXCEPT !.url = "https://mybank.com/login", !.linkList = JsNum],
     [EmptyPayload EXCEPT !.url = "https://mybank.com/login", !.links = JsObj],
     [EmptyPayload EXCEPT !.hostname = "192.168.0.1"],
     [EmptyPayload EXCEPT !.hostname = "999.999.999.999"],
     [EmptyPayload EXCEPT !.origin = "Faceboook.COM", !.hostname = "ignored.example"],
     [EmptyPayload EXCEPT !.url = "http://mybank.com/",
                          !.forms = JsArr(<<Form("/search", 1, FALSE), Form("/subscribe", 2, FALSE)>>)]}

Payloads == FormPayloads \cup TextPayloads \cup MixedPayloads \cup OddPayloads

\* Pages and trusted sets for the similarity searches: two trusted domains
\* at the same distance, a match on the full domain only, and no match with
\* and without a brand keyword in the label.
TyposquatPayloads ==
    {[EmptyPayload EXCEPT !.url = u] :
        u \in {"https://faceboook.com/", "https://nbc.com/", "https://fbk-help.xyz/",
               "https://example.org/", "https://abc.com/"}}

TyposquatSets ==
    {TrustedArg(<<"facebook.org", "facebook.com">>),
     TrustedArg(<<"tiktok.com", "abc.com", "nbd.com">>)}

\* What chrome.storage.sync can hold under "trustedDomains".
StorageLists ==
    {<<"mybank.com", "www.facebook.com">>, <<"10.0.0.1", "192.168.0.1">>}

\* loadTrusted (background.js 388-398): the stored array, or the default
\* when nothing is stored, mapped to registered domains.
RECURSIVE MapRegistered(_)
MapRegistered(arr) ==
    IF Len(arr) = 0 THEN <<>>
    ELSE <<getRegisteredDomain(ToLowerCase(arr[1]))>> \o MapRegistered(Tail(arr))

loadTrusted(stored) ==
    NewSet(FilterNonEmpty(MapRegistered(IF stored = <<>> THEN DEFAULT_TRUSTED ELSE stored[1])))

TrustedArgs ==
    {NoTrustedArg, TrustedArg(<<>>), TrustedArg(DEFAULT_TRUSTED)}
    \cup {TrustedArg(loadTrusted(<<l>>)) : l \in StorageLists}

\* The values the module-level Set can hold: the initial one, or one a
\* handled analyzeProfile message installed.
Globals == {NewSet(DEFAULT_TRUSTED)} \cup {loadTrusted(<<l>>) : l \in StorageLists}

\* The calls made: every payload with every trusted-set argument, the long
\* link lists with two of them.
CallInputs ==
    (Payloads \X TrustedArgs)
    \cup (LinkPayloads \X {NoTrustedArg, TrustedArg(<<"mybank.com", "facebook.com">>)})

\* A call of the core, as recorded: its arguments, the TRUSTED local of line
\* 158 and what it returned.
Called(p, T) ==
    [made |-> TRUE, payload |-> p, trustedSet |-> T,
     TRUSTED |-> IF T.isSet THEN T.v ELSE TRUSTED_REGISTERED_DOMAINS,
     result |-> analyzeProfileCore(p, T)]

NoCall == [made |-> FALSE, payload |-> EmptyPayload, trustedSet |-> NoTrustedArg,
           TRUSTED |-> <<>>, result |-> Thrown]

\* No response sent yet, and no utility function applied.
NoProfileResponse == [sent |-> FALSE, data |-> EmptyPayload, loaded |-> <<>>, result |-> Thrown]
NoAlertResponse == [sent |-> FALSE, id |-> "", origin |-> "", notified |-> FALSE]
NoProbe == [fn |-> "none"]

\* ------------------------------------------------------------------------
\* The core as a function of its arguments: one call from a state the
\* worker can be in.
\* ------------------------------------------------------------------------
InitCore ==
    /\ TRUSTED_REGISTERED_DOMAINS \in Globals
    /\ storage = <<>>
    /\ inflight = <<>>
    /\ notificationsSent = <<>>
    /\ local = <<>>
    /\ badge = ""
    /\ call = NoCall
    /\ profileResponse = NoProfileResponse
    /\ alertResponse = NoAlertResponse
    /\ notifications = <<>>
    /\ now = 0
    /\ probe = NoProbe

CoreCall ==
    /\ ~call.made
    /\ \E inp \in CallInputs : call' = Called(inp[1], inp[2])
    /\ UNCHANGED <<TRUSTED_REGISTERED_DOMAINS, storage, inflight, local, badge, profileResponse,
                 alertVars, probe>>

NextCore == CoreCall

SpecCore == InitCore /\ [][NextCore]_vars

\* The calls made for the similarity searches: pages with nothing but a
\* url, with every trusted-set argument.
TyposquatInputs ==
    ({[EmptyPayload EXCEPT !.url = u] : u \in PageUrls} \cup TyposquatPayloads)
    \X (TrustedArgs \cup TyposquatSets)

TyposquatCall ==
    /\ ~call.made
    /\ \E inp \in TyposquatInputs : call' = Called(inp[1], inp[2])
    /\ UNCHANGED <<TRUSTED_REGISTERED_DOMAINS, storage, inflight, local, badge, profileResponse,
                 alertVars, probe>>

NextTyposquat == TyposquatCall

SpecTyposquat == InitCore /\ [][NextTyposquat]_vars

\* ------------------------------------------------------------------------
\* The service worker: the module-level state, the options page writing
\* chrome.storage.sync, the message listener, and calls of the core.
\* ------------------------------------------------------------------------
MaxInflight == 2       \* analyzeProfile handlers waiting at line 402

\* The data of the analyzeProfile messages and the arguments of the calls.
MessageData ==
    {[EmptyPayload EXCEPT !.url = "https://mybank.com/login"],
     [EmptyPayload EXCEPT !.url = "http://192.168.0.1/admin", !.formList = JsNum]}

SysInputs ==
    {[EmptyPayload EXCEPT !.url = "https://mybank.com/login"]}
    \X {NoTrustedArg, TrustedArg(<<"mybank.com", "facebook.com">>)}

AlertIds == {"a1", ""}
AlertOrigins == {"", "evil.example"}

\* A finite map as a sequence of <<key, value>> pairs, one per key, in
\* insertion order: obj[key] = value.
Get(m, k, default) ==
    IF \E i \in 1..Len(m) : m[i][1] = k
    THEN m[CHOOSE i \in 1..Len(m) : m[i][1] = k][2]
    ELSE default

Put(m, k, v) ==
    IF \E i \in 1..Len(m) : m[i][1] = k
    THEN [i \in 1..Len(m) |-> IF m[i][1] = k THEN <<k, v>> ELSE m[i]]
    ELSE Append(m, <<k, v>>)

Init ==
    /\ TRUSTED_REGISTERED_DOMAINS = NewSet(DEFAULT_TRUSTED)
    /\ storage = <<>>
    /\ inflight = <<>>
    /\ notificationsSent = <<>>
    /\ local = <<>>
    /\ badge = ""
    /\ call = NoCall
    /\ profileResponse = NoProfileResponse
    /\ alertResponse = NoAlertResponse
    /\ notifications = <<>>
    /\ now = 0
    /\ probe = NoProbe

\* A call of analyzeProfileCore(data, trustedSet) in the worker's scope.
Assess ==
    /\ \E inp \in SysInputs : call' = Called(inp[1], inp[2])
    /\ UNCHANGED <<TRUSTED_REGISTERED_DOMAINS, storage, inflight, local, badge, profileResponse,
                 alertVars, probe>>

\* The options page saves its list (options.js 146-150, 163, 191).
SaveTrusted ==
    /\ \E l \in StorageLists : storage' = <<l>>
    /\ UNCHANGED <<TRUSTED_REGISTERED_DOMAINS, inflight, local, badge, call, profileResponse,
                 alertVars, probe>>

\* An analyzeProfile message arrives: the handler runs to the await of line
\* 402, chrome.storage.sync.get being issued.
ReceiveAnalyzeProfile ==
    /\ Len(inflight) < MaxInflight
    /\ \E d \in MessageData :
          inflight' = Append(inflight, [data |-> d, pc |-> "get", res |-> <<>>])
    /\ UNCHANGED <<TRUSTED_REGISTERED_DOMAINS, storage, local, badge, call, profileResponse,
                 alertVars, probe>>

\* The storage read of a pending get (389): the value stored at that time.
StorageReply(i) ==
    /\ inflight[i].pc = "get"
    /\ inflight' = [inflight EXCEPT ![i].pc = "callback", ![i].res = storage]
    /\ UNCHANGED <<TRUSTED_REGISTERED_DOMAINS, storage, local, badge, call, profileResponse,
                 alertVars, probe>>

RemoveAt(q, i) == SubSeq(q, 1, i - 1) \o SubSeq(q, i + 1, Len(q))

\* Lines 407-412 for a result: the last result saved under the origin, and
\* the badge.  A call that threw reaches the catch of 444 instead.
AfterCore(data, result) ==
    IF result.threw THEN UNCHANGED <<local, badge>>
    ELSE /\ local' = IF safeGetHostname(data.url) # ""
                     THEN Put(local, safeGetHostname(data.url), result) ELSE local
         /\ badge' = IF result.suspicious THEN "!" ELSE ""

\* A continuation that calls the core before the module-level Set is
\* replaced: the core runs while the Set holds what an earlier message left.
ResumeStaleGlobal(i) ==
    /\ inflight[i].pc = "callback"
    /\ \E d \in {inflight[i].data}, T \in {loadTrusted(inflight[i].res)} :
          /\ TRUSTED_REGISTERED_DOMAINS' = NewSet(T)
          /\ \E result \in {CoreIn(TRUSTED_REGISTERED_DOMAINS, d, TrustedArg(T))} :
                /\ AfterCore(d, result)
                /\ profileResponse' = [sent |-> TRUE, data |-> d, loaded |-> T,
                                       result |-> result]
    /\ inflight' = RemoveAt(inflight, i)
    /\ UNCHANGED <<storage, call, alertVars, probe>>

\* The callback of the get and the continuation of the handler (390-396,
\* 403-422): the module-level Set is replaced, then the core is called with
\* the loaded Set, hence run while the module-level Set holds the new value.
Resume(i) ==
    /\ inflight[i].pc = "callback"
    /\ \E d \in {inflight[i].data}, T \in {loadTrusted(inflight[i].res)} :
          /\ TRUSTED_REGISTERED_DOMAINS' = NewSet(T)
          /\ \E result \in {CoreIn(NewSet(T), d, TrustedArg(T))} :
                /\ AfterCore(d, result)
                /\ profileResponse' = [sent |-> TRUE, data |-> d, loaded |-> T,
                                       result |-> result]
    /\ inflight' = RemoveAt(inflight, i)
    /\ UNCHANGED <<storage, call, alertVars, probe>>

\* The analyzeProfile side of the worker.  The phish_alert branch shares no
\* state with it (alertVars) and is specified on its own below.
Next ==
    \/ Assess
    \/ SaveTrusted
    \/ ReceiveAnalyzeProfile
    \/ \E i \in 1..Len(inflight) : StorageReply(i)
    \/ \E i \in 1..Len(inflight) : Resume(i)

Spec == Init /\ [][Next]_vars

\* The analyzeProfile messages alone: the handlers in flight and the
\* options page, without direct calls of the core.
NextMessages ==
    \/ SaveTrusted
    \/ ReceiveAnalyzeProfile
    \/ \E i \in 1..Len(inflight) : StorageReply(i)
    \/ \E i \in 1..Len(inflight) : Resume(i)

SpecMessages == Init /\ [][NextMessages]_vars

\* ------------------------------------------------------------------------
\* The phish_alert branch of the listener (425-435) and
\* createPhishNotification (340-357).
\* ------------------------------------------------------------------------
MaxClock == 2          \* values Date.now() takes beyond the first

\* idKey (343), the first argument being alertId || origin (432).
IdKey(id, origin) == OrStr(OrStr(id, origin), OrStr(origin, "a-" \o NatToStr(now)))

\* Lines 344-355 and 433 for one message: the counter of the key, the
\* notification created unless the counter has reached 2, the response.
HandleAlert(id, origin, idKey, sentSoFar) ==
    /\ notificationsSent' = Put(notificationsSent, idKey,
                                IF sentSoFar >= 2 THEN sentSoFar ELSE sentSoFar + 1)
    /\ notifications' = IF sentSoFar >= 2 THEN notifications
                        ELSE Put(notifications, <<id, origin>>,
                                 Get(notifications, <<id, origin>>, 0) + 1)
    /\ alertResponse' = [sent |-> TRUE, id |-> id, origin |-> origin,
                         notified |-> sentSoFar < 2]

PhishAlert ==
    /\ \E id \in AlertIds, origin \in AlertOrigins :
          HandleAlert(id, origin, IdKey(id, origin),
                      Get(notificationsSent, IdKey(id, origin), 0))
    /\ now' = now
    /\ UNCHANGED <<TRUSTED_REGISTERED_DOMAINS, storage, inflight, local, badge, call,
                   profileResponse, probe>>

\* A millisecond passes.
Tick ==
    /\ now < MaxClock
    /\ now' = now + 1
    /\ UNCHANGED <<TRUSTED_REGISTERED_DOMAINS, storage, inflight, local, badge, call,
                   profileResponse, probe, notificationsSent, alertResponse, notifications>>

NextAlerts == PhishAlert \/ Tick

SpecAlerts == Init /\ [][NextAlerts]_vars

\* ------------------------------------------------------------------------
\* The links block (254-264) in double precision.  A Number is [m, e], the
\* value m * 2^e with m a natural number of 53 bits, written least
\* significant bit first, or Zero.  Sums and quotients are rounded to the
\* nearest Number, ties to even, as "+=" and "/" do.
\* ------------------------------------------------------------------------
Precision == 53

Zero == [m |-> <<>>, e |-> 0]

RECURSIVE BitsOf(_)
BitsOf(n) == IF n = 0 THEN <<>> ELSE <<n % 2>> \o BitsOf(n \div 2)

RestOf(bits) == IF bits = <<>> THEN <<>> ELSE Tail(bits)
BitOf(bits) == IF bits = <<>> THEN 0 ELSE bits[1]

RECURSIVE AddBits(_, _, _)
AddBits(a, b, carry) ==
    IF a = <<>> /\ b = <<>> THEN (IF carry = 1 THEN <<1>> ELSE <<>>)
    ELSE <<(BitOf(a) + BitOf(b) + carry) % 2>>
         \o AddBits(RestOf(a), RestOf(b), (BitOf(a) + BitOf(b) + carry) \div 2)

\* The 53 leading bits q of a longer number, one added when the bits cut
\* off are more than half, or exactly half with q odd.
RoundOff(q, e, up, sum) ==
    IF ~up THEN [m |-> q, e |-> e]
    ELSE IF Len(sum) > Precision THEN [m |-> Tail(sum), e |-> e + 1]
    ELSE [m |-> sum, e |-> e]

\* bits * 2^e as a Number.
Round(bits, e, cut) ==
    IF bits = <<>> THEN Zero
    ELSE IF cut <= 0 THEN [m |-> [i \in 1..(0 - cut) |-> 0] \o bits, e |-> e + cut]
    ELSE RoundOff(SubSeq(bits, cut + 1, Len(bits)), e + cut,
                  bits[cut] = 1 /\ (bits[cut + 1] = 1 \/ \E i \in 1..(cut - 1) : bits[i] = 1),
                  AddBits(SubSeq(bits, cut + 1, Len(bits)), <<1>>, 0))

ShiftLeft(bits, k) == [i \in 1..k |-> 0] \o bits

\* x + y
Plus(x, y) ==
    IF x.m = <<>> THEN y
    ELSE IF y.m = <<>> THEN x
    ELSE Round(AddBits(ShiftLeft(x.m, x.e - Min2(x.e, y.e)),
                       ShiftLeft(y.m, y.e - Min2(x.e, y.e)), 0),
               Min2(x.e, y.e),
               Len(AddBits(ShiftLeft(x.m, x.e - Min2(x.e, y.e)),
                           ShiftLeft(y.m, y.e - Min2(x.e, y.e)), 0)) - Precision)

\* Long division of a binary number by n > 0, from the leading bit:
\* [q, r], the quotient with leading zeros kept.  (The test of acc.r only
\* makes acc be evaluated before the next step.)
DivStep(q, t, n) ==
    [q |-> <<IF t >= n THEN 1 ELSE 0>> \o q, r |-> IF t >= n THEN t - n ELSE t]

RECURSIVE DivBits(_, _, _, _)
DivBits(num, n, i, acc) ==
    IF i = 0 \/ acc.r < 0 THEN acc
    ELSE DivBits(num, n, i - 1, DivStep(acc.q, 2 * acc.r + num[i], n))

RECURSIVE Strip(_)
Strip(bits) ==
    IF bits = <<>> \/ bits[Len(bits)] = 1 THEN bits ELSE Strip(SubSeq(bits, 1, Len(bits) - 1))

\* The quotient and a last bit that says whether a remainder was left.
Quotient(d, e) ==
    Round(<<IF d.r = 0 THEN 0 ELSE 1>> \o Strip(d.q), e - 1, Len(Strip(d.q)) + 1 - Precision)

\* x / n for a natural number n > 0: the quotient is taken with enough
\* bits beyond the 53 for the rounding to be that of the exact quotient.
Over(x, n) ==
    IF x.m = <<>> THEN Zero
    ELSE Quotient(DivBits(ShiftLeft(x.m, Len(BitsOf(n)) + 2), n,
                          Len(x.m) + Len(BitsOf(n)) + 2, [q |-> <<>>, r |-> 0]),
                  x.e - (Len(BitsOf(n)) + 2))

NumberOf(n) == Round(BitsOf(n), 0, Len(BitsOf(n)) - Precision)

\* The literal 0.hh of the source: the Number nearest to h / 100.
Literal(h) == Over(NumberOf(h), 100)

\* x < y
Less(x, y) ==
    IF y.m = <<>> THEN FALSE
    ELSE IF x.m = <<>> THEN TRUE
    ELSE IF x.e # y.e THEN x.e < y.e
    ELSE \E i \in 1..Precision :
            x.m[i] < y.m[i] /\ \A j \in (i + 1)..Precision : x.m[j] = y.m[j]

MathMin(x, y) == IF Less(y, x) THEN y ELSE x

\* Lines 255-260: linkRiskSum after the loop over links.slice(0, 40).  (The
\* test of linkRiskSum.e only makes it be evaluated before the next turn.)
RECURSIVE LinkRiskSum(_, _, _, _)
LinkRiskSum(links, pageHostname, i, linkRiskSum) ==
    IF i > Min2(Len(links), LINK_LIMIT) \/ linkRiskSum.e > 0 THEN linkRiskSum
    ELSE LinkRiskSum(links, pageHostname, i + 1,
                     Plus(linkRiskSum,
                          Literal(linkIsSuspicious(links[i], pageHostname, <<>>).risk)))

\* The risk sum itself taken as the contribution.
linkContributionNoMean(links, linkRiskSum, trustedExact) ==
    MathMin(Literal(IF trustedExact THEN 15 ELSE 40), linkRiskSum)

\* Lines 256, 261.
linkContribution(links, linkRiskSum, trustedExact) ==
    MathMin(Literal(IF trustedExact THEN 15 ELSE 40), Over(linkRiskSum, Max2(1, Len(links))))

ProbeLinkLists ==
    {Rep(h, n) \o Rep(t, m) :
        h \in {"/ok", "http://10.0.0.1/", "https://xn--a.com/"},
        t \in {"http://10.0.0.1/", "https://free.xyz/"},
        n \in {0, 3, LINK_LIMIT},
        m \in {0, 1, MaxExtraLinks}}

InitLinks ==
    /\ TRUSTED_REGISTERED_DOMAINS = NewSet(DEFAULT_TRUSTED)
    /\ storage = <<>>
    /\ inflight = <<>>
    /\ notificationsSent = <<>>
    /\ local = <<>>
    /\ badge = ""
    /\ call = NoCall
    /\ profileResponse = NoProfileResponse
    /\ alertResponse = NoAlertResponse
    /\ notifications = <<>>
    /\ now = 0
    /\ \E l \in ProbeLinkLists, t \in BOOLEAN :
          probe = [fn |-> "links", applied |-> FALSE, links |-> l,
                   pageHostname |-> "mybank.com", trustedExact |-> t,
                   exactSum |-> 0, linkContribution |-> Zero, suspicious |-> FALSE]

\* Lines 254-264 on a list of links: what is added to the score, and
\* whether line 263 sets suspicious.
LinksStep(p, contribution) ==
    [p EXCEPT !.applied = TRUE,
              !.exactSum = LinksLoop([sum |-> 0, reasons |-> <<>>], p.links, p.pageHostname, 1).sum,
              !.linkContribution = contribution,
              !.suspicious = ~Less(contribution, Literal(30))]

ApplyLinks ==
    /\ probe.fn = "links" /\ ~probe.applied
    /\ probe' = IF Len(probe.links) > 0
                THEN LinksStep(probe,
                        linkContribution(probe.links,
                                         LinkRiskSum(probe.links, probe.pageHostname, 1, Zero),
                                         probe.trustedExact))
                ELSE [probe EXCEPT !.applied = TRUE]
    /\ UNCHANGED <<TRUSTED_REGISTERED_DOMAINS, storage, inflight, local, badge, call,
                   profileResponse, alertVars>>

NextLinks == ApplyLinks

SpecLinks == InitLinks /\ [][NextLinks]_vars

LinksApplied == probe.fn = "links" /\ probe.applied

\* C18 (as stated): the link contribution is at most 0.20, so the links
\* block never sets suspicious through its >= 0.30 rule.
C18_LinkContributionAtMost020 ==
    LinksApplied =>
        /\ ~Less(Literal(20), probe.linkContribution)
        /\ ~probe.suspicious

\* C18 (amended): the mean of the risks is at most 0.20 in exact
\* arithmetic; the contribution computed in double precision can exceed
\* 0.20 by rounding but stays below 0.21, hence below 0.30, and the links
\* block never sets suspicious.
C18_LinkContributionBelow030 ==
    LinksApplied =>
        /\ probe.exactSum <= 20 * Max2(1, Len(probe.links))
        /\ Less(probe.linkContribution, Literal(21))
        /\ Less(probe.linkContribution, Literal(30))
        /\ ~probe.suspicious

\* LINK_LIMIT links of the highest risk: the contribution computed is above
\* 0.20 and the flag is not set.
C18_Witness ==
    /\ LinksApplied /\ Len(probe.links) >= LINK_LIMIT
    /\ Less(Literal(20), probe.linkContribution)
    /\ ~probe.suspicious

\* ------------------------------------------------------------------------
\* normalizedDistance as a function of two strings.
\* ------------------------------------------------------------------------
MaxStrLen == 3         \* length of the strings enumerated over {a, b}

RECURSIVE StringsUpTo(_)
StringsUpTo(n) ==
    IF n = 0 THEN {""}
    ELSE StringsUpTo(n - 1)
         \cup {w \o c : w \in {x \in StringsUpTo(n - 1) : Len(x) = n - 1}, c \in {"a", "b"}}

DistStrings == StringsUpTo(MaxStrLen) \cup {"kitten", "sitting", "facebook", "faceboook"}

InitDist ==
    /\ TRUSTED_REGISTERED_DOMAINS = NewSet(DEFAULT_TRUSTED)
    /\ storage = <<>>
    /\ inflight = <<>>
    /\ notificationsSent = <<>>
    /\ local = <<>>
    /\ badge = ""
    /\ call = NoCall
    /\ profileResponse = NoProfileResponse
    /\ alertResponse = NoAlertResponse
    /\ notifications = <<>>
    /\ now = 0
    /\ \E a \in DistStrings, b \in DistStrings :
          probe = [fn |-> "normalizedDistance", applied |-> FALSE, a |-> a, b |-> b,
                   lev |-> 0, ab |-> [n |-> 0, d |-> 1], ba |-> [n |-> 0, d |-> 1]]

ApplyDistance ==
    /\ probe.fn = "normalizedDistance" /\ ~probe.applied
    /\ probe' = [probe EXCEPT !.applied = TRUE,
                              !.lev = levenshtein(probe.a, probe.b),
                              !.ab = normalizedDistance(probe.a, probe.b),
                              !.ba = normalizedDistance(probe.b, probe.a)]
    /\ UNCHANGED <<TRUSTED_REGISTERED_DOMAINS, storage, inflight, local, badge, call,
                   profileResponse, alertVars>>

NextDist == ApplyDistance

SpecDist == InitDist /\ [][NextDist]_vars

DistApplied == probe.fn = "normalizedDistance" /\ probe.applied

\* C13: normalizedDistance(a, b) is editDistance(a, b) over
\* max(len(a), len(b), 1), lies in [0, 1], equals normalizedDistance(b, a)
\* and is 0 exactly when a = b; editDistance("", "") = 0 and
\* editDistance("kitten", "sitting") = 3.
C13_NormalizedDistance ==
    DistApplied =>
        /\ probe.ab.n = probe.lev
        /\ probe.ab.d = Max2(Max2(Len(probe.a), Len(probe.b)), 1)
        /\ 0 <= probe.ab.n /\ probe.ab.n <= probe.ab.d
        /\ probe.ab.n * probe.ba.d = probe.ba.n * probe.ab.d
        /\ probe.ab.n = 0 <=> probe.a = probe.b
        /\ (probe.a = "" /\ probe.b = "") => probe.lev = 0
        /\ (probe.a = "kitten" /\ probe.b = "sitting") => probe.lev = 3

\* Two different strings at a distance strictly between 0 and 1.
C13_Witness ==
    /\ DistApplied /\ probe.a # probe.b
    /\ 0 < probe.ab.n /\ probe.ab.n < probe.ab.d

\* ------------------------------------------------------------------------
\* linkIsSuspicious as a function of a link, a page hostname and the
\* reasons array it is handed.
\* ------------------------------------------------------------------------
MaxPriorReasons == 1   \* reasons already in the array when the link is assessed

ProbeLinks ==
    {"", "/ok", "/account/login", "mailto:me", "http://bad host/",
     "http://10.0.0.1/login", "https://xn--a.xyz/", "https://free.xyz/login",
     "https://paypal-help.com/account/login", "https://paypal-help.com/",
     "https://secure-login.com/", "https://mybank.com/", "https://Example.COM/Verify",
     "https://news.example.org/story"}

ProbePages == {"", "mybank.com", "paypal-help.com", "free.xyz", "bad host"}

InitLink ==
    /\ TRUSTED_REGISTERED_DOMAINS = NewSet(DEFAULT_TRUSTED)
    /\ storage = <<>>
    /\ inflight = <<>>
    /\ notificationsSent = <<>>
    /\ local = <<>>
    /\ badge = ""
    /\ call = NoCall
    /\ profileResponse = NoProfileResponse
    /\ alertResponse = NoAlertResponse
    /\ notifications = <<>>
    /\ now = 0
    /\ \E l \in ProbeLinks, h \in ProbePages, n \in 0..MaxPriorReasons :
          probe = [fn |-> "linkIsSuspicious", applied |-> FALSE, linkUrl |-> l,
                   pageHostnameNormalized |-> h, reasons |-> Rep("earlier reason", n),
                   out |-> [risk |-> 0, reasons |-> <<>>]]

ApplyLink ==
    /\ probe.fn = "linkIsSuspicious" /\ ~probe.applied
    /\ probe' = [probe EXCEPT !.applied = TRUE,
                              !.out = linkIsSuspicious(probe.linkUrl,
                                                       probe.pageHostnameNormalized,
                                                       probe.reasons)]
    /\ UNCHANGED <<TRUSTED_REGISTERED_DOMAINS, storage, inflight, local, badge, call,
                   profileResponse, alertVars>>

NextLink == ApplyLink

SpecLink == InitLink /\ [][NextLink]_vars

LinkApplied == probe.fn = "linkIsSuspicious" /\ probe.applied

\* The link resolved against the synthetic base, and its host and path.
ProbeUrl ==
    URL2(probe.linkUrl, "https://" \o (IF probe.pageHostnameNormalized = "" THEN "example.com"
                                       ELSE probe.pageHostnameNormalized))
ProbeHost == IF ProbeUrl.ok THEN ToLowerCase(ProbeUrl.hostname) ELSE ""
ProbePath == IF ProbeUrl.ok THEN ToLowerCase(ProbeUrl.pathname) ELSE ""

\* The six rules in their order, as (matches, value).
RuleTable(host, path, page) ==
    << <<host = "", 2>>,
       <<isIpAddress(host), 20>>,
       <<isPunycode(host), 18>>,
       <<getTld(host) \in RISKY_TLDS, 12>>,
       <<\E t \in {"verify", "confirm", "signin", "login", "account", "secure", "billing",
                   "payment"} : Includes(path, t), 10>>,
       <<host # page /\ \E t \in {"secure", "login", "paypal", "bank", "apple", "google",
                                  "microsoft"} : Includes(host, t), 14>> >>

FirstRuleValue(table) ==
    IF \A i \in 1..Len(table) : ~table[i][1] THEN 0
    ELSE table[CHOOSE i \in 1..Len(table) :
                   table[i][1] /\ \A j \in 1..(i - 1) : ~table[j][1]][2]

ExpectedRisk ==
    IF ~ProbeUrl.ok THEN 5
    ELSE FirstRuleValue(RuleTable(ProbeHost, ProbePath, probe.pageHostnameNormalized))

\* C15: linkIsSuspicious returns the value of the first matching rule in the
\* order empty host 0.02, IP host 0.20, punycode host 0.18, risky TLD 0.12,
\* path token 0.10, external host with brand token 0.14, 0 when none
\* matches and 0.05 when the link cannot be parsed; it appends exactly one
\* reason to the reasons array when the value is non-zero and none when it
\* is 0.
C15_FirstMatchingRule ==
    LinkApplied =>
        /\ probe.out.risk = ExpectedRisk
        /\ IF probe.out.risk # 0
           THEN /\ Len(probe.out.reasons) = Len(probe.reasons) + 1
                /\ SubSeq(probe.out.reasons, 1, Len(probe.reasons)) = probe.reasons
           ELSE probe.out.reasons = probe.reasons

\* A link matching two rules, answered with the earlier one.
C15_Witness ==
    /\ LinkApplied /\ ProbeUrl.ok
    /\ getTld(ProbeHost) \in RISKY_TLDS /\ Includes(ProbePath, "login")
    /\ probe.out.risk = 12
    /\ Len(probe.reasons) = 1 /\ Len(probe.out.reasons) = 2

\* ------------------------------------------------------------------------
\* Properties of a call of the core
\* ------------------------------------------------------------------------
Returns == call.made /\ ~call.result.threw
Res == call.result
PageHost == call.result.details.pageHostname
PageUrl == call.result.details.url

\* registeredDomain(page hostname) is in the set the call works with (its
\* trustedSet argument, or the module-level Set when none is passed).
InPassedSet == SetHas(call.TRUSTED, ToLowerCase(getRegisteredDomain(PageHost)))

\* The forms and links locals of the call.
FormsOfCall == ArrayOr(call.payload.forms, call.payload.formList).v
LinksOfCall == ArrayOr(call.payload.links, call.payload.linkList)

\* The running score and flag before form i, and after the last form.
PreForm(i) == IF i = 1 THEN Res.trace.https ELSE Res.trace.forms[i - 1]
AfterForms ==
    IF Len(Res.trace.forms) = 0 THEN Res.trace.https
    ELSE Res.trace.forms[Len(Res.trace.forms)]

\* C1: the score of every returned result lies in [0, 1] (0..100*U units),
\* whatever checks fired.
C1_ScoreInUnitInterval ==
    Returns => 0 <= Res.score /\ Res.score <= 100 * Res.U

\* A call whose checks summed to more than 1 before the clamp.
C1_Witness ==
    Returns /\ Res.trace.damp.score > 100 * Res.U /\ Res.score = 100 * Res.U

\* C2: registered domain in the trusted set of the call, url https:, and no
\* check having set suspicious => suspicious is false and score <= 0.05.
C2_TrustedHttpsCleanPage ==
    (Returns /\ InPassedSet /\ StartsWith(ToLowerCase(PageUrl), "https:")
       /\ ~Res.trace.canon.suspicious)
    => (~Res.suspicious /\ Res.score <= 5 * Res.U)

\* C4: every call returns a result; none throws.
C4_NeverRaises == call.made => ~call.result.threw

\* C5: the page is treated as exactly trusted (initial score 0.02 instead of
\* 0.25) exactly when its registered domain is in the trusted set of the call.
C5_TrustedExactIffInPassedSet ==
    Returns => /\ Res.trustedExact <=> InPassedSet
               /\ Res.trace.init.score = (IF InPassedSet THEN 2 ELSE 25) * Res.U

\* Two results agree in suspicious, reasons and score (scores are in units
\* of 1/(100*U), compared cross-multiplied).
SameOutcome(r1, r2) ==
    /\ r1.threw = r2.threw
    /\ r1.suspicious = r2.suspicious
    /\ r1.reasons = r2.reasons
    /\ r1.score * r2.U = r2.score * r1.U

CutTo(x, n) == IF x.t = "arr" THEN JsArr(SubSeq(x.v, 1, Min2(Len(x.v), n))) ELSE x

\* C6: with more than 40 links, the result is that of the same payload with
\* the list cut to its first 40 links: same score, suspicious and reasons.
C6_LinksPastLimitIgnored ==
    (Returns /\ LinksOfCall.t = "arr" /\ Len(LinksOfCall.v) > LINK_LIMIT)
    => SameOutcome(Res,
                   analyzeProfileCore([call.payload EXCEPT
                                          !.links = CutTo(@, LINK_LIMIT),
                                          !.linkList = CutTo(@, LINK_LIMIT)],
                                      call.trustedSet))

FaceboookCall ==
    /\ Returns
    /\ PageHost = "faceboook.com"
    /\ {call.TRUSTED[i] : i \in 1..Len(call.TRUSTED)} = {"facebook.com", "tiktok.com"}

TyposquatReason(dist) ==
    \E i \in 1..Len(Res.reasons) :
        /\ Includes(Res.reasons[i], "faceboook.com")
        /\ Includes(Res.reasons[i], "facebook.com")
        /\ Includes(Res.reasons[i], "(distance " \o dist \o ")")

\* C7 as stated: faceboook.com against {facebook.com, tiktok.com} is
\* suspicious with score >= 0.75 and a reason naming both domains with the
\* distance 0.22.
C7_FaceboookDistance022 ==
    FaceboookCall => Res.suspicious /\ Res.score >= 75 * Res.U /\ TyposquatReason("0.22")

\* C7 amended: the same, the reported distance being 0.11 (one edit over
\* the nine characters of "faceboook").
C7_FaceboookDistance011 ==
    FaceboookCall => Res.suspicious /\ Res.score >= 75 * Res.U /\ TyposquatReason("0.11")

C7_Witness == FaceboookCall /\ Res.score < 100 * Res.U

\* The form is a password form whose action resolves to a host that differs
\* from the page hostname and does not contain the page's registered domain.
ExternalPasswordForm(f) ==
    /\ f.t = "form" /\ f.hasPassword /\ f.action # ""
    /\ safeGetHostname(f.action) # PageHost
    /\ ~Includes(safeGetHostname(f.action), getRegisteredDomain(PageHost))

\* C8: each such form raises the running score by exactly 0.40 and the
\* final result is suspicious.
C8_ExternalPasswordFormAdds40 ==
    Returns =>
        \A i \in 1..Len(FormsOfCall) :
            ExternalPasswordForm(FormsOfCall[i])
            => /\ Res.trace.forms[i].score = PreForm(i).score + 40 * Res.U
               /\ Res.suspicious

\* C9: a dotted-quad page hostname adds 0.40 at the hostname check and the
\* result is suspicious, the final trusted handling changing neither score
\* nor reasons, also for a trusted page.
C9_IpHostnameSuspicious ==
    (Returns /\ isIpAddress(PageHost))
    => /\ Res.trace.host.score = Res.trace.text.score + 40 * Res.U
       /\ Res.suspicious
       /\ Res.trace.damp.score = Res.trace.canon.score
       /\ Res.reasons = Res.trace.reasonsBeforeDamp

\* An IP page that is exactly trusted and whose score the dampening would cut.
C9_Witness ==
    /\ Returns /\ isIpAddress(PageHost)
    /\ Res.trustedExact /\ InPassedSet
    /\ Res.trace.canon.score > 5 * Res.U

\* The URL constructor fails on what safeGetHostname hands it (22-26).
MalformedAction(a) ==
    IF TestHttpScheme(a) THEN ~URL1(a).ok
    ELSE IF TestBareHost(a) THEN FALSE
    ELSE ~URL1("https://" \o a).ok

MalformedLink(l) ==
    ~URL2(l, "https://" \o (IF PageHost = "" THEN "example.com" ELSE PageHost)).ok

\* C10: a form with a malformed action adds exactly 0.04 and leaves
\* suspicious as it was, with or without a password field; a malformed link
\* adds its fixed risk 0.05 and leaves suspicious as it was.
C10_MalformedAddsSmallFixedRisk ==
    Returns =>
        /\ \A i \in 1..Len(FormsOfCall) :
              (/\ FormsOfCall[i].t = "form"
               /\ FormsOfCall[i].action # ""
               /\ MalformedAction(FormsOfCall[i].action))
              => /\ Res.trace.forms[i].score = PreForm(i).score + 4 * Res.U
                 /\ Res.trace.forms[i].suspicious = PreForm(i).suspicious
        /\ (/\ LinksOfCall.t = "arr" /\ Len(LinksOfCall.v) = 1
            /\ MalformedLink(LinksOfCall.v[1]))
           => /\ Res.trace.links.score = AfterForms.score + 5 * Res.U
              /\ Res.trace.links.suspicious = AfterForms.suspicious

\* The flag after each block, in the order the blocks run.
FlagsInOrder ==
    <<Res.trace.init.suspicious, Res.trace.typo.suspicious, Res.trace.https.suspicious>>
    \o [i \in 1..Len(Res.trace.forms) |-> Res.trace.forms[i].suspicious]
    \o <<Res.trace.links.suspicious, Res.trace.text.suspicious, Res.trace.host.suspicious,
         Res.trace.canon.suspicious, Res.trace.damp.suspicious, Res.suspicious>>

\* C11: the returned flag is true exactly when a check set suspicious or
\* the clamped score is >= 0.55; a flag once set is never cleared; a result
\* that is not suspicious has score < 0.55.
C11_FinalDecision ==
    Returns =>
        /\ Res.suspicious <=> (Res.trace.damp.suspicious \/ Res.score >= 55 * Res.U)
        /\ \A i \in 1..(Len(FlagsInOrder) - 1) : FlagsInOrder[i] => FlagsInOrder[i + 1]
        /\ ~Res.suspicious => Res.score < 55 * Res.U

\* A result made suspicious by its score alone.
C11_Witness ==
    Returns /\ ~Res.trace.damp.suspicious /\ Res.suspicious /\ Res.score < 100 * Res.U

\* A reason mentions one of the weak patterns, letter case ignored.
MentionsWeak(reason) ==
    \E w \in {"hyphen", "subdomain", "depth", "no similarity to trusted domains detected",
              "multiple capitalized tokens"} : Includes(ToLowerCase(reason), w)

StrongReason(reason) == ~MentionsWeak(reason)

DampeningDue == Res.trustedExact /\ ~Res.trace.canon.suspicious

PageReg == ToLowerCase(getRegisteredDomain(PageHost))
PageSld == getSecondLevelLabel(PageHost)

\* The distances from the page to the domains of the set the call works
\* with, in iteration order, between second-level labels or between full
\* registered domains.
RECURSIVE DistancesFrom(_, _, _)
DistancesFrom(current, bySld, i) ==
    IF i > Len(call.TRUSTED) THEN <<>>
    ELSE <<normalizedDistance(current, IF bySld THEN getSecondLevelLabel(call.TRUSTED[i])
                                       ELSE call.TRUSTED[i])>>
         \o DistancesFrom(current, bySld, i + 1)

SldDistances == DistancesFrom(PageSld, TRUE, 1)
FullDistances == DistancesFrom(PageReg, FALSE, 1)

\* The first position in iteration order attaining the minimum (0: empty set).
FirstNearest(ds) ==
    IF ds = <<>> THEN 0
    ELSE CHOOSE i \in 1..Len(ds) :
            /\ \A j \in 1..Len(ds) : ~FracLess(ds[j], ds[i])
            /\ \A j \in 1..(i - 1) : FracLess(ds[i], ds[j])

Resembles(ds, i) == i # 0 /\ FracLeqPct(ds[i], 30)

SldReason(ds, i) ==
    "Domain SLD \"" \o PageSld \o "\" closely resembles trusted SLD \""
    \o getSecondLevelLabel(call.TRUSTED[i]) \o "\" (distance " \o toFixed2(ds[i])
    \o "). Treated as typosquat (" \o PageReg \o " ~ " \o call.TRUSTED[i] \o ")."

FullReason(ds, i) ==
    "Registered domain \"" \o PageReg \o "\" somewhat resembles trusted domain \""
    \o call.TRUSTED[i] \o "\" (distance " \o toFixed2(ds[i]) \o ")."

SimilarityFlagged(reason) ==
    /\ Res.trace.reasonsBeforeDamp[1] = reason
    /\ Res.trace.sim.suspicious
    /\ Res.trace.sim.score = Max2(Res.trace.init.score, 75 * Res.U)

SimilarityOutcome(bySld, bySldAt, full, fullAt) ==
    IF Resembles(bySld, bySldAt) THEN SimilarityFlagged(SldReason(bySld, bySldAt))
    ELSE IF Resembles(full, fullAt) THEN SimilarityFlagged(FullReason(full, fullAt))
    ELSE /\ Res.trace.reasonsBeforeDamp[1] = "No similarity to trusted domains detected"
         /\ Res.trace.sim.score = Res.trace.init.score
         /\ Res.trace.sim.suspicious = Res.trace.init.suspicious

\* C14: when the page's registered domain is not in the trusted set, the
\* similarity search picks the first trusted domain in iteration order at
\* the minimum distance between second-level labels; a minimum <= 0.30 sets
\* suspicious and raises the score to max(score, 0.75); otherwise the same
\* search over full registered domains has the same threshold and effect;
\* when neither matches only the neutral reason is appended and score and
\* suspicious are as before.  When the registered domain is in the trusted
\* set nothing of the search runs.
C14_TyposquatSearch ==
    Returns =>
        /\ Res.trace.sim.reasons = 1
        /\ IF InPassedSet
           THEN /\ Res.trace.reasonsBeforeDamp[1] = "Exact registered domain is trusted"
                /\ Res.trace.sim.score = Res.trace.init.score
                /\ Res.trace.sim.suspicious = Res.trace.init.suspicious
                /\ Res.trace.typo = Res.trace.init
           ELSE SimilarityOutcome(SldDistances, FirstNearest(SldDistances),
                                  FullDistances, FirstNearest(FullDistances))

TiedMatch(ds, i) ==
    /\ Resembles(ds, i)
    /\ \E j \in (i + 1)..Len(ds) : ds[j] = ds[i] /\ call.TRUSTED[j] # call.TRUSTED[i]

\* Two trusted domains at the same, matching, distance from the page.
C14_Witness ==
    Returns /\ ~InPassedSet /\ TiedMatch(SldDistances, FirstNearest(SldDistances))

C14_FullDomainCase ==
    /\ Returns /\ ~InPassedSet
    /\ ~Resembles(SldDistances, FirstNearest(SldDistances))
    /\ Resembles(FullDistances, FirstNearest(FullDistances))

C14_NeutralCase ==
    /\ Returns /\ ~InPassedSet /\ call.TRUSTED # <<>>
    /\ ~Resembles(SldDistances, FirstNearest(SldDistances))
    /\ ~Resembles(FullDistances, FirstNearest(FullDistances))
    /\ Res.trace.typo.suspicious

\* ------------------------------------------------------------------------
\* Properties of the service worker
\* ------------------------------------------------------------------------

\* C3: a call with the payload and the trusted set of the previous call
\* returns the result of the previous call, whatever happened in between.
C3_SameArgumentsSameResult ==
    [][(/\ call.made /\ call'.made
        /\ call'.payload = call.payload
        /\ call'.trustedSet = call.trustedSet
        /\ call'.TRUSTED = call.TRUSTED)
       => call'.result = call.result]_vars

\* The answer to an analyzeProfile message whose core call returned.
Answered == profileResponse.sent /\ ~profileResponse.result.threw

\* C17: under every interleaving of analyzeProfile messages suspended at the
\* trusted-domain load, the exact-trust decision made for a message uses the
\* set loaded from storage for that same message, never the set loaded by
\* another message in flight.
C17_DecisionUsesOwnLoadedSet ==
    Answered =>
        profileResponse.result.trustedExact
            = TrustedExactIn(profileResponse.loaded,
                             profileResponse.result.details.pageHostname)

\* A message answered while another one in flight has loaded a set under
\* which the decision would have been the other way.
C17_Witness ==
    /\ Answered
    /\ \E i \in 1..Len(inflight) :
          /\ inflight[i].pc = "callback"
          /\ TrustedExactIn(loadTrusted(inflight[i].res),
                            profileResponse.result.details.pageHostname)
                 # profileResponse.result.trustedExact

\* C16: over any sequence of phish_alert messages, at most two notifications
\* are created for messages carrying the same id and origin (both empty
\* included), every further such message is answered notified: false, and
\* no counter exceeds 2.
C16_AtMostTwoPerAlert ==
    /\ \A i \in 1..Len(notifications) : notifications[i][2] <= 2
    /\ \A i \in 1..Len(notificationsSent) : notificationsSent[i][2] <= 2
    /\ (alertResponse.sent /\ alertResponse.notified) =>
           Get(notifications, <<alertResponse.id, alertResponse.origin>>, 0) <= 2

\* The same bound for the messages that carry an id or an origin.
KeyedAlertsAtMostTwo ==
    /\ \A i \in 1..Len(notifications) :
          notifications[i][1] # <<"", "">> => notifications[i][2] <= 2
    /\ \A i \in 1..Len(notificationsSent) : notificationsSent[i][2] <= 2

=============================================================================
